---- MODULE Spec2Model ----
(***************************************************************************)
(* A model of python/lancedb/pydantic.py (the Pydantic -> Arrow schema     *)
(* adapter) and python/lancedb/util.py (the URI helpers).                  *)
(*                                                                         *)
(* Python values are modelled as records.  A str is a sequence of          *)
(* one-character strings, so that slicing, searching and lower-casing are  *)
(* computed the way urllib.parse computes them.  A call that raises is a   *)
(* result record with raised = TRUE; a call that returns has raised =      *)
(* FALSE and carries the value.                                            *)
(***************************************************************************)
EXTENDS Integers, Sequences, FiniteSets

VARIABLES
    pc,           \* "idle" | "loop" (inside _pydantic_model_to_fields) | "done"
    call,         \* the call the client made last: [fn, args]
    out,          \* what that call gave its caller: nothing yet, a value, an exception
    idx,          \* _pydantic_model_to_fields: position of the next model field
    fields,       \* _pydantic_model_to_fields: the local list `fields`
    markers,      \* the classes vector() has returned so far, in creation order
    vector_args   \* the arguments of each vector() call, in call order

vars == <<pc, call, out, idx, fields, markers, vector_args>>

-----------------------------------------------------------------------------
(* Bounds of the model.                                                    *)

MaxUriLen == 4      \* enumerated URIs have at most this many characters
MaxFields == 2      \* enumerated models declare at most this many fields
MaxDim == 2         \* vector(dim): dim ranges over 1..MaxDim
MaxMarkers == 2     \* at most this many vector() calls in one behaviour
MaxValueLen == 3    \* validated lists have at most this many items

-----------------------------------------------------------------------------
(* Call results.                                                           *)

\* `x = v` followed by F(x): v is evaluated once, then F on its value
Bind(v, F(_)) == CHOOSE r \in { F(x) : x \in {v} } : TRUE

Returned(v) == [raised |-> FALSE, value |-> v]
Raised(e) == [raised |-> TRUE, exc |-> e]
NoCall == [fn |-> "none", args |-> <<>>]
NoOut == [pending |-> TRUE]

-----------------------------------------------------------------------------
(* str: sequences of characters.                                           *)

AsciiLower ==
    << "a", "b", "c", "d", "e", "f", "g", "h", "i", "j", "k", "l", "m",
       "n", "o", "p", "q", "r", "s", "t", "u", "v", "w", "x", "y", "z" >>

AsciiUpper ==
    << "A", "B", "C", "D", "E", "F", "G", "H", "I", "J", "K", "L", "M",
       "N", "O", "P", "Q", "R", "S", "T", "U", "V", "W", "X", "Y", "Z" >>

Range(s) == { s[k] : k \in DOMAIN s }

\* str.isalpha() on one ASCII character
isalpha(c) == c \in Range(AsciiLower) \cup Range(AsciiUpper)

\* urllib.parse.scheme_chars
scheme_chars ==
    Range(AsciiLower) \cup Range(AsciiUpper)
        \cup {"0", "1", "2", "3", "4", "5", "6", "7", "8", "9"}
        \cup {"+", "-", "."}

\* str.lower()
lower_char(c) ==
    IF c \in Range(AsciiUpper)
    THEN AsciiLower[CHOOSE k \in DOMAIN AsciiUpper : AsciiUpper[k] = c]
    ELSE c

lower(s) == [k \in DOMAIN s |-> lower_char(s[k])]

\* s.find(c, start): the least position >= start holding c, 0 when there is
\* none (positions count from 1 here, from 0 in Python).
find(s, c, start) ==
    LET hits == { k \in start..Len(s) : s[k] = c }
    IN  IF hits = {} THEN 0 ELSE CHOOSE k \in hits : \A j \in hits : k <= j

\* s.rfind(c)
rfind(s, c) ==
    LET hits == { k \in 1..Len(s) : s[k] = c }
    IN  IF hits = {} THEN 0 ELSE CHOOSE k \in hits : \A j \in hits : k >= j

\* `c in s`
contains(s, c) == c \in Range(s)

\* s[from:] with from counted from 1
tail_from(s, from) == SubSeq(s, from, Len(s))

-----------------------------------------------------------------------------
(* urllib.parse.urlparse, as get_uri_scheme and get_uri_location use it.   *)
(* Inputs hold no control characters, no blanks and no non-ASCII           *)
(* characters, and none holds both "[" and "]", so urlsplit's stripping    *)
(* of those and its check of a well-formed bracketed host never apply.     *)

uses_params ==
    { <<>>,
      <<"f","t","p">>, <<"h","d","l">>,
      <<"p","r","o","s","p","e","r","o">>,
      <<"h","t","t","p">>, <<"i","m","a","p">>,
      <<"h","t","t","p","s">>, <<"s","h","t","t","p">>,
      <<"r","t","s","p">>, <<"r","t","s","p","s">>, <<"r","t","s","p","u">>,
      <<"s","i","p">>, <<"s","i","p","s">>, <<"m","m","s">>,
      <<"s","f","t","p">>, <<"t","e","l">> }

\* _splitnetloc(url, start): (domain, rest), cut at the first of "/", "?", "#"
\* at or after `start`.
splitnetloc(url, start) ==
    LET ds == { k \in start..Len(url) : url[k] \in {"/", "?", "#"} }
        delim == IF ds = {} THEN Len(url) + 1
                 ELSE CHOOSE k \in ds : \A j \in ds : k <= j
    IN  [netloc |-> SubSeq(url, start, delim - 1), rest |-> tail_from(url, delim)]

\* url.split(c, 1) when c is in url
split_once(url, c) ==
    Bind(find(url, c, 1), LAMBDA k :
        [head |-> SubSeq(url, 1, k - 1), rest |-> tail_from(url, k + 1)])

\* _splitparams(url): (path, params)
splitparams(url) ==
    Bind(IF contains(url, "/")
         THEN find(url, ";", rfind(url, "/"))
         ELSE find(url, ";", 1), LAMBDA k :
        IF k = 0
        THEN [path |-> url, params |-> <<>>]
        ELSE [path |-> SubSeq(url, 1, k - 1), params |-> tail_from(url, k + 1)])

ValueError == [type |-> "ValueError", msg |-> "Invalid IPv6 URL"]

\* The scheme part of urlsplit: url[:i].lower() and url[i+1:] when the text
\* before the first ":" is a scheme, "" and url otherwise.
split_scheme(url) ==
    Bind(find(url, ":", 1), LAMBDA colon :
        IF /\ colon > 1
           /\ isalpha(url[1])
           /\ \A k \in 1..(colon - 1) : url[k] \in scheme_chars
        THEN [scheme |-> lower(SubSeq(url, 1, colon - 1)), url |-> tail_from(url, colon + 1)]
        ELSE [scheme |-> <<>>, url |-> url])

\* `if url[:2] == '//'`
starts_with_slashes(url) == Len(url) >= 2 /\ url[1] = "/" /\ url[2] = "/"

\* the bracket test that makes urlsplit raise ValueError("Invalid IPv6 URL")
bad_brackets(netloc) ==
    \/ contains(netloc, "[") /\ ~contains(netloc, "]")
    \/ contains(netloc, "]") /\ ~contains(netloc, "[")

\* `if c in url: url, rest = url.split(c, 1)`
cut_at(url, c) ==
    IF contains(url, c) THEN split_once(url, c) ELSE [head |-> url, rest |-> <<>>]

urlsplit(url0) ==
    Bind(split_scheme(url0), LAMBDA s :
    Bind(IF starts_with_slashes(s.url) THEN splitnetloc(s.url, 3)
         ELSE [netloc |-> <<>>, rest |-> s.url], LAMBDA n :
    IF bad_brackets(n.netloc) THEN Raised(ValueError)
    ELSE Bind(cut_at(n.rest, "#"), LAMBDA f :
         Bind(cut_at(f.head, "?"), LAMBDA q :
             Returned([scheme |-> s.scheme, netloc |-> n.netloc, path |-> q.head,
                       query |-> q.rest, fragment |-> f.rest])))))

urlparse(url) ==
    Bind(urlsplit(url), LAMBDA r :
        IF r.raised THEN r
        ELSE IF r.value.scheme \in uses_params /\ contains(r.value.path, ";")
        THEN Bind(splitparams(r.value.path), LAMBDA sp :
                 Returned([scheme |-> r.value.scheme, netloc |-> r.value.netloc,
                           path |-> sp.path, params |-> sp.params,
                           query |-> r.value.query, fragment |-> r.value.fragment]))
        ELSE Returned([scheme |-> r.value.scheme, netloc |-> r.value.netloc,
                       path |-> r.value.path, params |-> <<>>,
                       query |-> r.value.query, fragment |-> r.value.fragment]))

-----------------------------------------------------------------------------
(* lancedb/util.py                                                         *)

STR_file == <<"f", "i", "l", "e">>
STR_s3 == <<"s", "3">>
STR_s3a == <<"s", "3", "a">>
STR_s3n == <<"s", "3", "n">>

\* A variant without the branch for one-character schemes.
get_uri_scheme_without_drive_letters(uri) ==
    Bind(urlparse(uri), LAMBDA parsed :
        IF parsed.raised THEN parsed
        ELSE IF parsed.value.scheme = <<>> THEN Returned(STR_file)
        ELSE IF parsed.value.scheme \in {STR_s3a, STR_s3n} THEN Returned(STR_s3)
        ELSE Returned(parsed.value.scheme))

get_uri_scheme(uri) ==
    Bind(urlparse(uri), LAMBDA parsed :
        IF parsed.raised THEN parsed
        ELSE IF parsed.value.scheme = <<>> THEN Returned(STR_file)
        ELSE IF parsed.value.scheme \in {STR_s3a, STR_s3n} THEN Returned(STR_s3)
        ELSE IF Len(parsed.value.scheme) = 1 THEN Returned(STR_file)
        ELSE Returned(parsed.value.scheme))

\* A variant that joins the network location and the path with "/".
get_uri_location_joined_by_slash(uri) ==
    Bind(urlparse(uri), LAMBDA parsed :
        IF parsed.raised THEN parsed
        ELSE IF parsed.value.netloc = <<>>
        THEN Returned(parsed.value.path)
        ELSE Returned(parsed.value.netloc \o <<"/">> \o parsed.value.path))

get_uri_location(uri) ==
    Bind(urlparse(uri), LAMBDA parsed :
        IF parsed.raised THEN parsed
        ELSE IF parsed.value.netloc = <<>>
        THEN Returned(parsed.value.path)
        ELSE Returned(parsed.value.netloc \o parsed.value.path))

-----------------------------------------------------------------------------
(* Python type objects, as field annotations hold them.                    *)
(*   meta = "type":          a class; mro names the class and its bases    *)
(*   meta = "_GenericAlias": typing.List[...], typing.Union[...], ...      *)
(*   meta = "GenericAlias":  types.GenericAlias, i.e. list[...]            *)
(*   meta = "_SpecialForm":  typing.Any and the like                       *)
(* Two type objects are == exactly when they are the same record.          *)

Class(name, bases) == [meta |-> "type", name |-> name, mro |-> {name, "object"} \cup bases]

py_int == Class("int", {})
py_float == Class("float", {})
py_str == Class("str", {})
py_bool == Class("bool", {"int"})
py_bytes == Class("bytes", {})
NoneType == Class("NoneType", {})
py_dict == Class("dict", {})
UserInt == Class("UserInt", {"int"})          \* class UserInt(int)
typing_Any == [meta |-> "_SpecialForm", name |-> "Any"]

TypingAlias(origin, args) == [meta |-> "_GenericAlias", origin |-> origin, args |-> args]
BuiltinAlias(origin, args) == [meta |-> "GenericAlias", origin |-> origin, args |-> args]

List(t) == TypingAlias("list", <<t>>)
Union(args) == TypingAlias("Union", args)
Optional(t) == Union(<<t, NoneType>>)
Dict(k, v) == TypingAlias("dict", <<k, v>>)

\* pydantic.fields.FieldInfo, and a pydantic.BaseModel subclass with its
\* model_fields in declaration order
FieldInfo(annotation) == [annotation |-> annotation]
ModelField(name, annotation) == [name |-> name, field |-> FieldInfo(annotation)]
BaseModel(name, model_fields) ==
    [meta |-> "type", name |-> name, mro |-> {name, "BaseModel", "object"},
     model_fields |-> model_fields]

isclass(a) == a.meta = "type"
issubclass(cls, base) == base \in cls.mro

-----------------------------------------------------------------------------
(* pyarrow data types, fields and schemas.                                 *)

pa_int64 == [id |-> "int64"]
pa_float64 == [id |-> "double"]
pa_float32 == [id |-> "float"]
pa_utf8 == [id |-> "string"]
pa_bool_ == [id |-> "bool"]
pa_binary == [id |-> "binary"]

\* pa.list_(value_type, list_size=-1): a variable-size list when list_size is
\* -1, a fixed-size list otherwise
pa_list_(value_type, list_size) ==
    IF list_size = -1
    THEN [id |-> "list", value_type |-> value_type]
    ELSE [id |-> "fixed_size_list", value_type |-> value_type, list_size |-> list_size]

pa_struct(fs) == [id |-> "struct", fields |-> fs]
pa_field(name, type, nullable) == [name |-> name, type |-> type, nullable |-> nullable]
pa_schema(fs) == [id |-> "schema", fields |-> fs]

-----------------------------------------------------------------------------
(* lancedb/pydantic.py                                                     *)

\* The class FixedSizeList that one call vector(dim, value_type) defines: its
\* static methods read the variables of that call.
FixedSizeList(dim, value_type) ==
    [meta |-> "type", name |-> "FixedSizeList",
     mro |-> {"FixedSizeList", "list", "FixedSizeListMixin", "ABC", "object"},
     closure |-> [dim |-> dim, value_type |-> value_type]]

\* FixedSizeList.dim() and FixedSizeList.value_arrow_type()
dim(cls) == cls.closure.dim
value_arrow_type(cls) == cls.closure.value_type

\* vector()'s default for value_type
DefaultValueType == pa_float32
NotGiven == [id |-> "<not given>"]

\* A variant in which FixedSizeList reads module-level variables that every
\* vector() call overwrites, so all classes report the latest arguments.
vector_shared_variables(made, d, value_type) ==
    Append([k \in DOMAIN made |->
                FixedSizeList(d, IF value_type = NotGiven THEN DefaultValueType
                                 ELSE value_type)],
           FixedSizeList(d, IF value_type = NotGiven THEN DefaultValueType
                            ELSE value_type))

\* vector(dim, value_type): the classes made so far, with the new one added
vector(made, d, value_type) ==
    Append(made, FixedSizeList(d, IF value_type = NotGiven THEN DefaultValueType
                                  ELSE value_type))

TypeError(py_type) == [type |-> "TypeError", py_type |-> py_type]

\* A variant that tests issubclass(py_type, int) and so on instead of ==.
py_type_to_arrow_type_by_issubclass(py_type) ==
    IF py_type.meta # "type" THEN Raised(TypeError(py_type))
    ELSE IF issubclass(py_type, "int") THEN Returned(pa_int64)
    ELSE IF issubclass(py_type, "float") THEN Returned(pa_float64)
    ELSE IF issubclass(py_type, "str") THEN Returned(pa_utf8)
    ELSE IF issubclass(py_type, "bool") THEN Returned(pa_bool_)
    ELSE IF issubclass(py_type, "bytes") THEN Returned(pa_binary)
    ELSE Raised(TypeError(py_type))

\* The `if py_type == int` chain.
_py_type_to_arrow_type(py_type) ==
    IF py_type = py_int THEN Returned(pa_int64)
    ELSE IF py_type = py_float THEN Returned(pa_float64)
    ELSE IF py_type = py_str THEN Returned(pa_utf8)
    ELSE IF py_type = py_bool THEN Returned(pa_bool_)
    ELSE IF py_type = py_bytes THEN Returned(pa_binary)
    ELSE Raised(TypeError(py_type))

is_nullable(field) ==
    IF field.annotation.meta = "_GenericAlias"
    THEN LET origin == field.annotation.origin
             args == field.annotation.args
         IN  IF origin = "Union"
             THEN IF Len(args) = 2 /\ args[2] = NoneType THEN TRUE ELSE FALSE
             ELSE FALSE
    ELSE FALSE

\* sys.version_info > (3, 9): true of every interpreter that has list[int]
sys_version_info_gt_3_9 == TRUE

\* A variant that inserts at the front: fields.insert(0, x)
list_insert_front(l, x) == <<x>> \o l

\* fields.append(x)
list_append(l, x) == Append(l, x)

RECURSIVE _pydantic_to_arrow_type(_)
RECURSIVE _pydantic_to_field(_, _)
RECURSIVE model_fields_loop(_, _, _)

\* The for loop of _pydantic_model_to_fields from the k-th item on, with
\* `acc` the list built so far; an exception ends it.
model_fields_loop(items, k, acc) ==
    IF k > Len(items) THEN Returned(acc)
    ELSE LET r == _pydantic_to_field(items[k].name, items[k].field)
         IN  IF r.raised THEN r
             ELSE model_fields_loop(items, k + 1, list_append(acc, r.value))

_pydantic_model_to_fields(model) == model_fields_loop(model.model_fields, 1, <<>>)

_pydantic_to_arrow_type(field) ==
    LET annotation == field.annotation
        scalar == _py_type_to_arrow_type(annotation)
    IN  IF \/ annotation.meta = "_GenericAlias"
           \/ (sys_version_info_gt_3_9 /\ annotation.meta = "GenericAlias")
        THEN LET origin == annotation.origin
                 args == annotation.args
             IN  IF origin = "list"
                 THEN LET child == _py_type_to_arrow_type(args[1])
                      IN  IF child.raised THEN child
                          ELSE Returned(pa_list_(child.value, -1))
                 ELSE IF origin = "Union" /\ Len(args) = 2 /\ args[2] = NoneType
                 THEN _py_type_to_arrow_type(args[1])
                 ELSE scalar
        ELSE IF isclass(annotation)
        THEN IF issubclass(annotation, "BaseModel")
             THEN LET fs == _pydantic_model_to_fields(annotation)
                  IN  IF fs.raised THEN fs ELSE Returned(pa_struct(fs.value))
             ELSE IF issubclass(annotation, "FixedSizeListMixin")
             THEN Returned(pa_list_(value_arrow_type(annotation), dim(annotation)))
             ELSE scalar
        ELSE scalar

_pydantic_to_field(name, field) ==
    LET dt == _pydantic_to_arrow_type(field)
    IN  IF dt.raised THEN dt
        ELSE Returned(pa_field(name, dt.value, is_nullable(field)))

pydantic_to_schema(model) ==
    LET fs == _pydantic_model_to_fields(model)
    IN  IF fs.raised THEN fs ELSE Returned(pa_schema(fs.value))

-----------------------------------------------------------------------------
(* Validation of a value against the class vector() returned.              *)
(* __get_pydantic_core_schema__ builds the schema from the `dim` of the    *)
(* enclosing vector() call; validate_python is what pydantic does with     *)
(* that schema: the list schema checks the value is a list, its length    *)
(* against the limits the schema gives, and each item against the items    *)
(* schema, and the after-validator then calls the class on the validated   *)
(* list.                                                                   *)

PyInt == [type |-> "int"]
PyFloat == [type |-> "float"]
PyNone == [type |-> "NoneType"]
PyList(items) == [type |-> "list", items |-> items]

ValidationError(kind) == [type |-> "ValidationError", kind |-> kind]

\* A variant that passes no max_length to list_schema.
get_pydantic_core_schema_without_max(cls) ==
    [type |-> "function-after",
     function |-> cls.name,
     schema |-> [type |-> "list",
                 min_length |-> cls.closure.dim,
                 items_schema |-> [type |-> "float"]]]

get_pydantic_core_schema(cls) ==
    [type |-> "function-after",
     function |-> cls.name,
     schema |-> [type |-> "list",
                 min_length |-> cls.closure.dim,
                 max_length |-> cls.closure.dim,
                 items_schema |-> [type |-> "float"]]]

\* core_schema.float_schema(): an int or a float is taken (as a float)
float_schema_accepts(item) == item.type \in {"int", "float"}

validate_python(core, value) ==
    LET ls == core.schema
    IN  IF value.type # "list" THEN Raised(ValidationError("list_type"))
        ELSE IF "min_length" \in DOMAIN ls /\ Len(value.items) < ls.min_length
        THEN Raised(ValidationError("too_short"))
        ELSE IF "max_length" \in DOMAIN ls /\ Len(value.items) > ls.max_length
        THEN Raised(ValidationError("too_long"))
        ELSE IF \E k \in DOMAIN value.items : ~float_schema_accepts(value.items[k])
        THEN Raised(ValidationError("float_type"))
        ELSE Returned([type |-> core.function,
                       items |-> [k \in DOMAIN value.items |-> PyFloat]])

-----------------------------------------------------------------------------
(* The annotations, models and values the client passes.                   *)

InnerModel ==
    BaseModel("InnerModel", << ModelField("a", py_str),
                               ModelField("b", Optional(py_float)) >>)

\* the model of pydantic_to_schema's docstring
FooModel ==
    BaseModel("FooModel", << ModelField("id", py_int),
                             ModelField("s", Optional(py_str)),
                             ModelField("vec", List(py_float)),
                             ModelField("li", List(py_int)),
                             ModelField("inner", InnerModel) >>)

\* the model of vector()'s docstring
MyModel ==
    BaseModel("MyModel", << ModelField("id", py_int),
                            ModelField("url", py_str),
                            ModelField("embeddings", vector(<<>>, 768, NotGiven)[1]) >>)

\* a nested model whose second field cannot be translated
BadInner ==
    BaseModel("BadInner", << ModelField("a", py_int),
                             ModelField("b", List(List(py_int))) >>)

\* two levels of nesting
Outer ==
    BaseModel("Outer", << ModelField("x", InnerModel), ModelField("y", py_bytes) >>)

OuterBad ==
    BaseModel("OuterBad", << ModelField("x", py_bool), ModelField("y", BadInner) >>)

\* class VecModel(pydantic.BaseModel, FixedSizeListMixin): both a model and
\* a carrier of dim() and value_arrow_type()
VecModel ==
    [meta |-> "type", name |-> "VecModel",
     mro |-> {"VecModel", "BaseModel", "FixedSizeListMixin", "ABC", "object"},
     model_fields |-> << ModelField("v", py_float) >>,
     closure |-> [dim |-> 2, value_type |-> pa_float32]]

ValueTypes == {NotGiven, pa_float64}

StaticMarkers == { vector(<<>>, d, t)[1] : d \in 1..MaxDim, t \in ValueTypes }

Scalars == {py_int, py_float, py_str, py_bool, py_bytes}

Annotations ==
    Scalars
    \cup {NoneType, py_dict, UserInt, typing_Any}
    \cup { List(t) : t \in Scalars \cup {UserInt, List(py_int), Optional(py_int), InnerModel} }
    \cup { BuiltinAlias("list", <<py_int>>), BuiltinAlias("list", <<py_dict>>),
           BuiltinAlias("dict", <<py_str, py_int>>) }
    \cup { Optional(t) : t \in Scalars \cup {UserInt, List(py_int), InnerModel}
                                       \cup StaticMarkers }
    \cup { Union(<<NoneType, py_int>>), Union(<<NoneType, py_str>>),
           Union(<<py_int, py_str>>), Union(<<py_int, py_str, NoneType>>),
           Union(<<py_int, NoneType, py_str>>), Dict(py_str, py_int) }
    \cup {InnerModel, BadInner, Outer, OuterBad, VecModel}
    \cup StaticMarkers

FieldAnnotations ==
    { py_int, py_str, UserInt, Optional(py_float), Union(<<NoneType, py_int>>),
      Union(<<py_int, py_str>>), List(py_float), List(List(py_int)),
      BuiltinAlias("list", <<py_int>>), Optional(InnerModel), Dict(py_str, py_int),
      InnerModel, BadInner, Outer, OuterBad, VecModel,
      vector(<<>>, 1, NotGiven)[1], vector(<<>>, MaxDim, pa_float64)[1] }

FieldNames == << "id", "s", "vec", "li", "inner", "url", "embeddings" >>

\* class Model(pydantic.BaseModel) declaring anns[1], anns[2], ... in order
ModelOf(anns) ==
    BaseModel("Model", [k \in DOMAIN anns |-> ModelField(FieldNames[k], anns[k])])

Models ==
    { ModelOf(anns) : anns \in UNION { [1..n -> FieldAnnotations] : n \in 0..MaxFields } }
        \cup {FooModel, MyModel}

\* models whose fields are classes vector() returned in this behaviour
MarkerModels(made) ==
    { ModelOf(anns) : anns \in
        { a \in UNION { [1..n -> Range(made) \cup {py_int}] : n \in 1..2 } :
            \E k \in DOMAIN a : a[k] \in Range(made) } }

Items == {PyInt, PyFloat, PyNone}

Values == { PyList(items) : items \in UNION { [1..n -> Items] : n \in 0..MaxValueLen } }
              \cup {PyFloat}

-----------------------------------------------------------------------------
(* The URIs the client passes: every string over UriAlphabet of at most    *)
(* MaxUriLen characters, and the URIs of the documentation and tests.      *)

UriAlphabet == {"s", "3", "a", ":", "/", "["}

UriExamples ==
    { <<"s","3","a",":","/","/","b","u","c","k","e","t","/","k","e","y">>,
      <<"s","3","n",":","/","/","b","/","k">>,
      <<"S","3","A",":","/","/","b">>,
      <<"/","l","o","c","a","l","/","p","a","t","h">>,
      <<"C",":","\\","U","s","e","r","s","\\","x">>,
      <<"s","3",":","/","/","b","u","c","k","e","t","/","k","e","y","/","o","b","j">>,
      <<"g","s",":","/","/","b","/","k","?","q","#","f">>,
      <<"h","t","t","p",":","/","/","h",":","8","/","p",";","x">>,
      <<"d","i","r","/","d","b",";","v","1">>,
      <<"h","t","t","p",":","/","/","[","a","b","c">>,
      <<"s","3",":","/","/","b","]","/","k">> }

URIs == UNION { [1..n -> UriAlphabet] : n \in 0..MaxUriLen } \cup UriExamples

-----------------------------------------------------------------------------
(* The client calls one of the URI helpers.                                *)

Call_get_uri_scheme(uri) ==
    /\ pc = "idle"
    /\ call' = [fn |-> "get_uri_scheme", args |-> <<uri>>]
    /\ out' = get_uri_scheme(uri)
    /\ pc' = "done"
    /\ UNCHANGED <<idx, fields, markers, vector_args>>

Call_get_uri_location(uri) ==
    /\ pc = "idle"
    /\ call' = [fn |-> "get_uri_location", args |-> <<uri>>]
    /\ out' = get_uri_location(uri)
    /\ pc' = "done"
    /\ UNCHANGED <<idx, fields, markers, vector_args>>

-----------------------------------------------------------------------------
(* The client calls one function of lancedb.pydantic.                      *)

Call_py_type_to_arrow_type(py_type) ==
    /\ pc = "idle"
    /\ call' = [fn |-> "_py_type_to_arrow_type", args |-> <<py_type>>]
    /\ out' = _py_type_to_arrow_type(py_type)
    /\ pc' = "done"
    /\ UNCHANGED <<idx, fields, markers, vector_args>>

Call_is_nullable(field) ==
    /\ pc = "idle"
    /\ call' = [fn |-> "is_nullable", args |-> <<field>>]
    /\ out' = Returned(is_nullable(field))
    /\ pc' = "done"
    /\ UNCHANGED <<idx, fields, markers, vector_args>>

Call_pydantic_to_arrow_type(field) ==
    /\ pc = "idle"
    /\ call' = [fn |-> "_pydantic_to_arrow_type", args |-> <<field>>]
    /\ out' = _pydantic_to_arrow_type(field)
    /\ pc' = "done"
    /\ UNCHANGED <<idx, fields, markers, vector_args>>

\* pydantic_to_schema(model) enters _pydantic_model_to_fields with an empty
\* list `fields`.
Call_pydantic_to_schema(model) ==
    /\ pc = "idle"
    /\ call' = [fn |-> "pydantic_to_schema", args |-> <<model>>]
    /\ pc' = "loop"
    /\ idx' = 1
    /\ fields' = <<>>
    /\ UNCHANGED <<out, markers, vector_args>>

\* One iteration of the for loop: the next field is translated and appended,
\* or the exception of its translation leaves the call.
ModelToFieldsStep ==
    /\ pc = "loop"
    /\ idx <= Len(call.args[1].model_fields)
    /\ LET item == call.args[1].model_fields[idx]
           r == _pydantic_to_field(item.name, item.field)
       IN  \/ /\ ~r.raised
              /\ fields' = list_append(fields, r.value)
              /\ idx' = idx + 1
              /\ UNCHANGED <<pc, out>>
           \/ /\ r.raised
              /\ out' = r
              /\ pc' = "done"
              /\ UNCHANGED <<idx, fields>>
    /\ UNCHANGED <<call, markers, vector_args>>

\* The loop is over: pydantic_to_schema returns pa.schema(fields).
ModelToFieldsReturn ==
    /\ pc = "loop"
    /\ idx > Len(call.args[1].model_fields)
    /\ out' = Returned(pa_schema(fields))
    /\ pc' = "done"
    /\ UNCHANGED <<call, idx, fields, markers, vector_args>>

\* vector(dim) or vector(dim, value_type)
Call_vector(d, value_type) ==
    /\ pc = "idle"
    /\ Len(markers) < MaxMarkers
    /\ markers' = vector(markers, d, value_type)
    /\ vector_args' = Append(vector_args, [dim |-> d, value_type |-> value_type])
    /\ UNCHANGED <<pc, call, out, idx, fields>>

\* pydantic validates `value` for a field annotated with markers[k]
Call_validate(k, value) ==
    /\ pc = "idle"
    /\ call' = [fn |-> "validate", args |-> <<k, value>>]
    /\ out' = validate_python(get_pydantic_core_schema(markers[k]), value)
    /\ pc' = "done"
    /\ UNCHANGED <<idx, fields, markers, vector_args>>

Init ==
    /\ pc = "idle"
    /\ call = NoCall
    /\ out = NoOut
    /\ idx = 0
    /\ fields = <<>>
    /\ markers = <<>>
    /\ vector_args = <<>>

NextSchema ==
    \/ \E py_type \in Annotations : Call_py_type_to_arrow_type(py_type)
    \/ \E a \in Annotations : Call_is_nullable(FieldInfo(a))
    \/ \E a \in Annotations : Call_pydantic_to_arrow_type(FieldInfo(a))
    \/ \E model \in Models : Call_pydantic_to_schema(model)
    \/ ModelToFieldsStep
    \/ ModelToFieldsReturn

SpecSchema == Init /\ [][NextSchema]_vars

NextVector ==
    \/ \E d \in 1..MaxDim, value_type \in ValueTypes : Call_vector(d, value_type)
    \/ \E k \in DOMAIN markers, value \in Values : Call_validate(k, value)
    \/ \E model \in MarkerModels(markers) : Call_pydantic_to_schema(model)
    \/ ModelToFieldsStep
    \/ ModelToFieldsReturn

SpecVector == Init /\ [][NextVector]_vars

NextURI ==
    \E uri \in URIs :
        \/ Call_get_uri_scheme(uri)
        \/ Call_get_uri_location(uri)

SpecURI == Init /\ [][NextURI]_vars

-----------------------------------------------------------------------------
(* What the claims speak of.                                               *)

Called(fn) == pc = "done" /\ call.fn = fn
Arg == call.args[1]

IsUnion(a) == a.meta = "_GenericAlias" /\ a.origin = "Union"
IsParamList(a) == a.meta \in {"_GenericAlias", "GenericAlias"} /\ a.origin = "list"
IsModel(a) == a.meta = "type" /\ "BaseModel" \in a.mro
IsMarker(a) == a.meta = "type" /\ "FixedSizeListMixin" \in a.mro

\* a two-armed union one arm of which is None, in either position
IsOptional(a) ==
    IsUnion(a) /\ Len(a.args) = 2 /\ \E k \in 1..2 : a.args[k] = NoneType

\* the arm of an optional that is not None
OptionalArm(a) == IF a.args[1] = NoneType THEN a.args[2] ELSE a.args[1]

IsOptionalOfScalar(a) == IsOptional(a) /\ OptionalArm(a) \in Scalars

SameOutcome(r1, r2) ==
    /\ r1.raised = r2.raised
    /\ ~r1.raised => r1.value = r2.value

IsSubstring(x, s) ==
    \E k \in 0..(Len(s) - Len(x)) : SubSeq(s, k + 1, k + Len(x)) = x

-----------------------------------------------------------------------------
\* C1: is_nullable(field) is true if and only if the field's declared type is a
\* two-armed union in which one arm is None, whichever arm that is; it is false
\* for every other declared type, every other union shape included.
C1_NullableIffTwoArmedUnionWithNone ==
    Called("is_nullable") => out.value = IsOptional(Arg.annotation)

-----------------------------------------------------------------------------
\* C2: _py_type_to_arrow_type maps int, float, str, bool and bytes to int64,
\* float64, utf8, bool and binary, each to its own type; every other input
\* (a subclass of the five, a parameterized type, a union, NoneType) raises
\* the TypeError that names the input, and no data type is returned.
C2_ScalarTable ==
    Called("_py_type_to_arrow_type") =>
        /\ Arg = py_int => out = Returned([id |-> "int64"])
        /\ Arg = py_float => out = Returned([id |-> "double"])
        /\ Arg = py_str => out = Returned([id |-> "string"])
        /\ Arg = py_bool => out = Returned([id |-> "bool"])
        /\ Arg = py_bytes => out = Returned([id |-> "binary"])
        /\ Arg \notin {py_int, py_float, py_str, py_bool, py_bytes} =>
               out = [raised |-> TRUE, exc |-> [type |-> "TypeError", py_type |-> Arg]]

\* a subclass of int was passed and was refused
C2_Witness ==
    /\ Called("_py_type_to_arrow_type")
    /\ Arg = UserInt
    /\ out.raised

-----------------------------------------------------------------------------
\* C3: _pydantic_to_arrow_type gives every annotation the result of the first
\* rule it matches: (1) a parameterized list -> list of the element's scalar
\* type, (2) an optional of a scalar -> the scalar's type, (3) a nested model
\* -> the struct of its fields, (4) a carrier of the vector marker -> the
\* fixed-size list of its element type and dimension, (5) otherwise the
\* scalar type of the annotation itself.
RuleOrder(a) ==
    IF IsParamList(a)
    THEN Bind(_py_type_to_arrow_type(a.args[1]), LAMBDA child :
             IF child.raised THEN child
             ELSE Returned([id |-> "list", value_type |-> child.value]))
    ELSE IF IsOptionalOfScalar(a) THEN _py_type_to_arrow_type(OptionalArm(a))
    ELSE IF IsModel(a)
    THEN Bind(_pydantic_model_to_fields(a), LAMBDA fs :
             IF fs.raised THEN fs ELSE Returned([id |-> "struct", fields |-> fs.value]))
    ELSE IF IsMarker(a)
    THEN Returned([id |-> "fixed_size_list", value_type |-> a.closure.value_type,
                   list_size |-> a.closure.dim])
    ELSE _py_type_to_arrow_type(a)

\* C3: the outcome of _pydantic_to_arrow_type is the outcome of the first
\* matching rule, for every annotation.
C3_FirstMatchingRule ==
    Called("_pydantic_to_arrow_type") => SameOutcome(out, RuleOrder(Arg.annotation))

-----------------------------------------------------------------------------
\* C4: when pydantic_to_schema(model) returns, the schema has one field per
\* declared field, in declaration order; the k-th has the k-th declared name,
\* the type _pydantic_to_arrow_type gives the k-th field and the nullability
\* is_nullable gives it; a nested-model field is a non-nullable struct whose
\* children describe the nested model's fields in the same way; and the
\* schema's fields are the list _pydantic_model_to_fields returns.
RECURSIVE Describes(_, _)
Describes(fs, model) ==
    /\ Len(fs) = Len(model.model_fields)
    /\ \A k \in DOMAIN fs :
           LET decl == model.model_fields[k]
           IN  /\ fs[k].name = decl.name
               /\ fs[k].nullable = is_nullable(decl.field)
               /\ Returned(fs[k].type) = _pydantic_to_arrow_type(decl.field)
               /\ IsModel(decl.field.annotation) =>
                      /\ ~fs[k].nullable
                      /\ fs[k].type.id = "struct"
                      /\ Describes(fs[k].type.fields, decl.field.annotation)

\* C4: a returned schema describes the model field by field, in order, and is
\* the list _pydantic_model_to_fields returns.
C4_SchemaDescribesModel ==
    (Called("pydantic_to_schema") /\ ~out.raised) =>
        /\ Describes(out.value.fields, Arg)
        /\ Returned(out.value.fields) = _pydantic_model_to_fields(Arg)

\* the model of the documentation gives the documented schema
C4_Witness ==
    /\ Called("pydantic_to_schema")
    /\ Arg = FooModel
    /\ out = Returned([id |-> "schema", fields |-> <<
           [name |-> "id", type |-> [id |-> "int64"], nullable |-> FALSE],
           [name |-> "s", type |-> [id |-> "string"], nullable |-> TRUE],
           [name |-> "vec", type |-> [id |-> "list", value_type |-> [id |-> "double"]],
            nullable |-> FALSE],
           [name |-> "li", type |-> [id |-> "list", value_type |-> [id |-> "int64"]],
            nullable |-> FALSE],
           [name |-> "inner",
            type |-> [id |-> "struct", fields |-> <<
                [name |-> "a", type |-> [id |-> "string"], nullable |-> FALSE],
                [name |-> "b", type |-> [id |-> "double"], nullable |-> TRUE] >>],
            nullable |-> FALSE] >>])

-----------------------------------------------------------------------------
\* C5: if some field of the model, at any depth, is declared with an
\* annotation that is no scalar, list of scalar, optional of scalar, nested
\* model or vector marker, pydantic_to_schema raises the TypeError at the
\* first such field in depth-first declaration order and returns no schema;
\* before that its caller has seen nothing.
RECURSIVE Translatable(_)
Translatable(a) ==
    \/ a \in Scalars
    \/ IsParamList(a) /\ a.args[1] \in Scalars
    \/ IsOptionalOfScalar(a)
    \/ IsModel(a) /\ \A k \in DOMAIN a.model_fields :
                         Translatable(a.model_fields[k].field.annotation)
    \/ ~IsModel(a) /\ IsMarker(a)

\* the positions of the top-level fields that hold an untranslatable
\* annotation, themselves or at some depth
BadFields(model) ==
    { k \in DOMAIN model.model_fields :
        ~Translatable(model.model_fields[k].field.annotation) }

FirstBadField(model) ==
    CHOOSE k \in BadFields(model) : \A j \in BadFields(model) : k <= j

\* C5: a model with an untranslatable field gives its caller nothing until the
\* TypeError raised at the first such field.
C5_RaisesAtFirstUntranslatableField ==
    (call.fn = "pydantic_to_schema" /\ BadFields(Arg) # {}) =>
        \/ pc = "loop" /\ out = NoOut
        \/ /\ pc = "done"
           /\ out.raised
           /\ out.exc.type = "TypeError"
           /\ idx = FirstBadField(Arg)

-----------------------------------------------------------------------------
\* C6: every class vector(dim, value_type) returned reports dim() = dim and
\* value_arrow_type() = value_type (float32 when value_type was not given),
\* whatever vector() calls came after it; and a model field declared with
\* such a class becomes the non-nullable field of type
\* fixed_size_list(value_type, dim).
ExpectedValueType(given) == IF given = NotGiven THEN [id |-> "float"] ELSE given

ExpectedVectorField(name, a) ==
    [name |-> name,
     type |-> [id |-> "fixed_size_list",
               value_type |-> ExpectedValueType(a.value_type),
               list_size |-> a.dim],
     nullable |-> FALSE]

C6_MarkerKeepsItsConstants ==
    /\ Len(markers) = Len(vector_args)
    /\ \A k \in DOMAIN markers :
           /\ dim(markers[k]) = vector_args[k].dim
           /\ value_arrow_type(markers[k]) = ExpectedValueType(vector_args[k].value_type)
    /\ Called("pydantic_to_schema") =>
           /\ ~out.raised
           /\ Len(out.value.fields) = Len(Arg.model_fields)
           /\ \A j \in DOMAIN Arg.model_fields, k \in DOMAIN markers :
                  Arg.model_fields[j].field.annotation = markers[k] =>
                      out.value.fields[j] =
                          ExpectedVectorField(Arg.model_fields[j].name, vector_args[k])

\* two classes made with different dimensions and element types, both used in
\* one model that has been translated
C6_Witness ==
    /\ Called("pydantic_to_schema")
    /\ Len(markers) = 2
    /\ vector_args[1].dim # vector_args[2].dim
    /\ vector_args[1].value_type # vector_args[2].value_type
    /\ Len(Arg.model_fields) = 2
    /\ Arg.model_fields[1].field.annotation = markers[1]
    /\ Arg.model_fields[2].field.annotation = markers[2]
    /\ ~out.raised

-----------------------------------------------------------------------------
\* C7: a value passes the validation of a class made by vector(dim, ...) if
\* and only if it is a list of exactly dim numbers: shorter and longer lists
\* of numbers are refused, whatever the element type of the class.
IsNumber(item) == item.type \in {"int", "float"}

-----------------------------------------------------------------------------
\* C8: get_uri_scheme gives "file" when the parsed URI has no scheme or a
\* scheme of one character, "s3" when the parsed scheme is s3a or s3n, and the
\* parsed scheme otherwise; so the result is never empty, never one character
\* long, and never "s3a" or "s3n".
C8_SchemeNormalised ==
    (Called("get_uri_scheme") /\ ~out.raised) =>
        LET scheme == urlparse(Arg).value.scheme
        IN  /\ (scheme = <<>> \/ Len(scheme) = 1) => out.value = <<"f", "i", "l", "e">>
            /\ scheme \in {<<"s", "3", "a">>, <<"s", "3", "n">>} => out.value = <<"s", "3">>
            /\ (Len(scheme) > 1 /\ scheme \notin {<<"s", "3", "a">>, <<"s", "3", "n">>}) =>
                   out.value = scheme
            /\ Len(out.value) > 1
            /\ out.value \notin {<<"s", "3", "a">>, <<"s", "3", "n">>}

\* a drive letter was parsed as a scheme and "file" was returned
C8_Witness ==
    /\ Called("get_uri_scheme")
    /\ Arg = <<"C", ":", "\\", "U", "s", "e", "r", "s", "\\", "x">>
    /\ urlparse(Arg).value.scheme = <<"c">>
    /\ out = Returned(<<"f", "i", "l", "e">>)

-----------------------------------------------------------------------------
\* C9: get_uri_location gives the parsed path as it is when the parsed URI
\* has no network location, and the network location followed at once by the
\* path otherwise ("s3://bucket/key/obj" gives "bucket/key/obj" and
\* "/local/path" gives "/local/path").
LocationOfParts ==
    LET parsed == urlparse(Arg).value
    IN  /\ parsed.netloc = <<>> => out.value = parsed.path
        /\ parsed.netloc # <<>> => out.value = parsed.netloc \o parsed.path
        /\ Arg = <<"s","3",":","/","/","b","u","c","k","e","t","/","k","e","y","/","o","b","j">>
               => out.value = <<"b","u","c","k","e","t","/","k","e","y","/","o","b","j">>
        /\ Arg = <<"/","l","o","c","a","l","/","p","a","t","h">> => out.value = Arg

-----------------------------------------------------------------------------
\* C10: get_uri_scheme and get_uri_location return a string for every string
\* they are given, malformed URIs included, and never raise.
C10_UriHelpersNeverRaise ==
    (Called("get_uri_scheme") \/ Called("get_uri_location")) => ~out.raised

====
